---- MODULE Spec2Model ----
(***************************************************************************)
(* Model of horreum-to-postgresql.py: the Worker.upload pipeline           *)
(* (src/horreum-to-postgresql.py).  One run lists datasets page by page    *)
(* through the generator _horreum_datasets, fetches the label values of    *)
(* each dataset, converts its start time, buffers the record and inserts   *)
(* the buffer into PostgreSQL in batches of 10 with ON CONFLICT DO NOTHING.*)
(***************************************************************************)
EXTENDS Integers, Sequences, FiniteSets, TLC

(***************************************************************************)
(* Bounds of the model and constants of the program.                       *)
(***************************************************************************)
\* largest --horreum-count a run is started with
MaxCount == 23
\* largest --horreum-page a run is started with
MaxStartPage == 2
\* number of times the script is run against the same store
MaxRuns == 2
\* flush threshold of upload: len(data_to_insert) >= 10
BatchSize == 10
\* default of --horreum-limit
DefaultLimit == 10

\* largest --horreum-count of the runs followed to their end
MaxLiveCount == 12
\* number of runs of the script started together on one database
NumRaceRuns == 3
RaceRuns == 1..NumRaceRuns

\* every page number a run can request: each non-empty page yields an item
MaxPage == MaxStartPage + MaxCount + 1

(***************************************************************************)
(* Helpers.                                                                *)
(***************************************************************************)
Min(a, b) == IF a <= b THEN a ELSE b
Max(a, b) == IF a >= b THEN a ELSE b

(***************************************************************************)
(* Time conversion, upload line 229:                                       *)
(*   when = datetime.datetime.fromtimestamp(ds["start"] / 1000, UTC)       *)
(* An epoch-millisecond value is an unbounded Python int; it is kept as    *)
(* two decimal limbs, value = hi * 10^6 + lo with 0 <= lo < 10^6.          *)
(***************************************************************************)
\* ds["start"] // 1000 would be: whole seconds, nothing after the point
FloorDiv1000(start) ==
    [sec |-> start.hi * 1000 + (start.lo \div 1000), usec |-> 0]

\* ds["start"] / 1000 is Python 3 true division: the float keeps the
\* milliseconds as the fraction, which fromtimestamp rounds to microseconds
TrueDiv1000(start) ==
    [sec |-> start.hi * 1000 + (start.lo \div 1000),
     usec |-> (start.lo % 1000) * 1000]

\* proleptic Gregorian date of a day number counted from 1970-01-01
CivilFromDays(days) ==
    LET z   == days + 719468
        era == z \div 146097
        doe == z - era * 146097
        yoe == (doe - (doe \div 1460) + (doe \div 36524) - (doe \div 146096)) \div 365
        doy == doe - (365 * yoe + (yoe \div 4) - (yoe \div 100))
        mp  == (5 * doy + 2) \div 153
        d   == doy - ((153 * mp + 2) \div 5) + 1
        m   == IF mp < 10 THEN mp + 3 ELSE mp - 9
        y   == yoe + era * 400 + (IF m <= 2 THEN 1 ELSE 0)
    IN  [year |-> y, month |-> m, day |-> d]

\* datetime.datetime.fromtimestamp(t, datetime.UTC)
FromTimestamp(t) ==
    LET date == CivilFromDays(t.sec \div 86400)
        rem  == t.sec % 86400
    IN  [year |-> date.year, month |-> date.month, day |-> date.day,
         hour |-> rem \div 3600, minute |-> (rem % 3600) \div 60,
         second |-> rem % 60, microsecond |-> t.usec]

\* the expression of line 229 as a whole
When(start) == FromTimestamp(TrueDiv1000(start))

(***************************************************************************)
(* The remote Horreum service.  What it holds is fixed for a behaviour by  *)
(* the variable remote: kinds gives the kind of each of the first pages,   *)
(* rest the kind of every later page, variant what the datasets look like. *)
(***************************************************************************)
PageKinds == {"empty", "short", "full"}
Variants == {"distinct", "repeating"}

\* either datasets that are all different, on pages of every kind, or the
\* same few datasets coming back with full pages
Remotes ==
    { r \in [kinds : [1..2 -> PageKinds], rest : {"empty", "full"},
             variant : Variants] :
        r.variant = "repeating" => \A p \in 1..2 : r.kinds[p] = "full" }

PageKind(r, p) == IF p <= 2 THEN r.kinds[p] ELSE r.rest

\* number of datasets on page p when asked with the given limit
PageLen(r, p, limit) ==
    CASE PageKind(r, p) = "empty" -> 0
      [] PageKind(r, p) = "short" -> Max(1, limit \div 3)
      [] PageKind(r, p) = "full"  -> limit

\* the i-th dataset of page p of test test_id
Dataset(r, test_id, p, i) ==
    IF r.variant = "distinct"
    THEN [id |-> 100 * p + i, testId |-> test_id, runId |-> p,
          start |-> [hi |-> 1700000, lo |-> 1000 * (MaxPage - p) + 999 - i]]
    ELSE [id |-> 1 + (i % 2), testId |-> test_id, runId |-> 1,
          start |-> [hi |-> 1700000, lo |-> 1000 * (MaxPage - p) + 999 - i]]

\* response.json().get("datasets", []) of GET /api/dataset/list/{test_id}
ListResponse(r, test_id, p, limit) ==
    [i \in 1..PageLen(r, p, limit) |-> Dataset(r, test_id, p, i)]

\* response.json() of GET /api/dataset/{dataset_id}/labelValues
LabelValuesResponse(r, dataset_id) ==
    IF r.variant = "distinct"
    THEN << [name |-> "metric", value |-> dataset_id] >>
    ELSE << [name |-> "metric", value |-> dataset_id],
            [name |-> "metric", value |-> dataset_id + 1] >>

(***************************************************************************)
(* _horreum_labelvalues line 215 and _db_insert lines 132-141: the label   *)
(* values become a dict, the dict becomes JSON text.                       *)
(***************************************************************************)
\* d[name] = value on a dict kept as its items in insertion order
DictSet(d, name, value) ==
    IF \E k \in 1..Len(d) : d[k].name = name
    THEN [k \in 1..Len(d) |->
            IF d[k].name = name THEN [name |-> name, value |-> value] ELSE d[k]]
    ELSE Append(d, [name |-> name, value |-> value])

\* {i["name"]: i["value"] for i in response.json()}
RECURSIVE DictOf(_, _)
DictOf(d, items) ==
    IF items = <<>> THEN d
    ELSE DictOf(DictSet(d, Head(items).name, Head(items).value), Tail(items))

\* json.dumps(label_values): the text, one token per element
RECURSIVE JsonItems(_)
JsonItems(d) ==
    IF d = <<>> THEN <<>>
    ELSE << Head(d).name, ":", Head(d).value >>
         \o (IF Len(d) > 1 THEN << "," >> ELSE <<>>) \o JsonItems(Tail(d))

JsonDumps(d) == << "{" >> \o JsonItems(d) \o << "}" >>

\* the dict appended to data_to_insert, upload lines 233-239
Record(dataset, label_values) ==
    [horreum_testid |-> dataset.testId,
     horreum_runid |-> dataset.runId,
     horreum_datasetid |-> dataset.id,
     start |-> When(dataset.start),
     label_values |-> label_values]

\* the tuple built for one record, _db_insert lines 134-140
Values(i) ==
    [horreum_testid |-> i.horreum_testid,
     horreum_runid |-> i.horreum_runid,
     horreum_datasetid |-> i.horreum_datasetid,
     start |-> i.start,
     label_values |-> JsonDumps(i.label_values)]

RECURSIVE ValuesList(_)
ValuesList(data_list) ==
    IF data_list = <<>> THEN <<>>
    ELSE << Values(Head(data_list)) >> \o ValuesList(Tail(data_list))

(***************************************************************************)
(* The table data, lines 82-90, and the INSERT of lines 126-130.           *)
(***************************************************************************)
\* the columns of UNIQUE (horreum_testid, horreum_runid, horreum_datasetid)
Key(row) == << row.horreum_testid, row.horreum_runid, row.horreum_datasetid >>

\* the INSERT without its ON CONFLICT clause, into a table without UNIQUE
InsertPlain(visible, row) == Append(visible, row)

\* the INSERT with ON CONFLICT (...) DO UPDATE SET start, label_values
InsertOnConflictDoUpdate(visible, row) ==
    IF \E k \in 1..Len(visible) : Key(visible[k]) = Key(row)
    THEN [k \in 1..Len(visible) |->
            IF Key(visible[k]) = Key(row) THEN row ELSE visible[k]]
    ELSE Append(visible, row)

\* INSERT ... ON CONFLICT (...) DO NOTHING of one row into the rows visible
\* to the transaction; v and r are visible and row, taken once
InsertOnConflictDoNothing(visible, row) ==
    CHOOSE after \in
        { IF \E k \in 1..Len(v) : Key(v[k]) = Key(r) THEN v ELSE Append(v, r) :
              v \in {visible}, r \in {row} } : TRUE

\* psycopg2.extras.execute_batch: the statement once per tuple, in order
RECURSIVE ExecuteBatch(_, _)
ExecuteBatch(visible, values_list) ==
    IF values_list = <<>> THEN visible
    ELSE ExecuteBatch(InsertOnConflictDoNothing(visible, Head(values_list)),
                      Tail(values_list))

(***************************************************************************)
(* State.                                                                  *)
(***************************************************************************)
VARIABLES
    args,            \* the parsed command line of the run
    remote,          \* what the Horreum service holds
    run,             \* number of the current run of the script
    pc,              \* where upload is
    ret,             \* which call of _db_insert is running: "loop" or "final"
    db_conn,         \* the psycopg2 connection: "none", "open" or "closed"
    table_exists,    \* table data exists in the database
    rows,            \* committed rows of table data, in insertion order
    txn,             \* table data as the open transaction sees it
    gen,             \* the generator object datasets_generator
    ds,              \* loop variable of upload
    data_to_insert,  \* the buffer of upload
    requests,        \* page numbers requested by this run, in order
    lv_requests,     \* dataset ids whose label values this run requested
    yielded,         \* datasets yielded by the generator in this run
    inserts,         \* the data_list of every _db_insert call of this run
    connects,        \* successful psycopg2.connect calls of this run
    closes,          \* db_conn.close() calls of this run
    commits,         \* conn.commit() calls that returned, per _db_insert call
    creates,         \* CREATE TABLE statements executed by this run
    table_inits,     \* calls of _db_table_init made by this run
    exc,             \* the call whose exception ended the run, "" if none
    ended,           \* how the run before this one ended and with what rows
    conv_in,         \* a pair of start values handed to the conversion
    conv_out,        \* their converted values, <<>> before the conversion
    race_pc,         \* where each of the runs started together is
    race_seen,       \* what table_exists of line 77 is in each of them
    race_creates     \* CREATE TABLE statements each of them has issued

vars == << args, remote, run, pc, ret, db_conn, table_exists, rows, txn, gen,
           ds, data_to_insert, requests, lv_requests, yielded, inserts,
           connects, closes, commits, creates, table_inits, exc, ended,
           conv_in, conv_out, race_pc, race_seen, race_creates >>

store == << table_exists, rows, txn >>
logs == << requests, lv_requests, yielded, inserts, connects, closes,
           commits, creates, table_inits >>
conv == << conv_in, conv_out >>
race == << race_pc, race_seen, race_creates >>

NoDataset == [id |-> 0, testId |-> 0, runId |-> 0, start |-> [hi |-> 0, lo |-> 0]]

\* the generator object right after the call of line 223: no code has run
NewGenerator(a) ==
    [state |-> "created", counter |-> 0, page |-> a.horreum_page,
     datasets |-> <<>>, idx |-> 0]

Args ==
    [horreum_test_id : {1}, horreum_count : 0..MaxCount,
     horreum_page : 1..MaxStartPage, horreum_limit : {DefaultLimit}]

Init ==
    /\ args \in Args
    /\ remote \in Remotes
    /\ run = 1
    /\ pc = "connect"
    /\ ret = "loop"
    /\ db_conn = "none"
    /\ table_exists = FALSE
    /\ rows = <<>>
    /\ txn = <<>>
    /\ gen = NewGenerator(args)
    /\ ds = NoDataset
    /\ data_to_insert = <<>>
    /\ requests = <<>>
    /\ lv_requests = <<>>
    /\ yielded = <<>>
    /\ inserts = <<>>
    /\ connects = 0
    /\ closes = 0
    /\ commits = <<>>
    /\ creates = 0
    /\ table_inits = 0
    /\ exc = ""
    /\ ended = [outcome |-> "", rows |-> <<>>]
    /\ conv_in = <<>>
    /\ conv_out = <<>>
    /\ race_pc = [p \in RaceRuns |-> "connect"]
    /\ race_seen = [p \in RaceRuns |-> "unknown"]
    /\ race_creates = [p \in RaceRuns |-> 0]

(***************************************************************************)
(* upload, lines 217-248, and what it calls.                               *)
(***************************************************************************)
\* an exception raised in the named call is caught and the loop goes on
Swallow(call) ==
    /\ pc' = "next"
    /\ exc' = call

\* an exception raised in the named call leaves upload: no try statement
\* catches it, the process ends
Raise(call) ==
    /\ pc' = "Error"
    /\ exc' = call

\* lines 218-220: _setup and _db_connect
db_connect ==
    /\ pc = "connect"
    /\ db_conn' = "open"
    /\ connects' = connects + 1
    /\ pc' = "table_init"
    /\ UNCHANGED << args, remote, run, ret, store, gen, ds, data_to_insert,
                    requests, lv_requests, yielded, inserts, closes, commits,
                    creates, table_inits, exc, ended, conv, race >>

\* psycopg2.connect raises
db_connect_fail ==
    /\ pc = "connect"
    /\ Raise("_db_connect")
    /\ UNCHANGED << args, remote, run, ret, db_conn, store, gen, ds,
                    data_to_insert, logs, ended, conv, race >>

\* line 79, with the condition always true
AlwaysMissing(exists) == TRUE

\* line 79: if not table_exists
TableMissing(exists) == ~exists

\* line 221 left out: upload goes on to lines 223-224 with no schema step
db_table_init_skipped ==
    /\ pc = "table_init"
    /\ gen' = NewGenerator(args)
    /\ data_to_insert' = <<>>
    /\ pc' = "next"
    /\ UNCHANGED << args, remote, run, ret, db_conn, store, ds, logs, exc,
                    ended, conv, race >>

\* line 221 and lines 75-92, then line 223-224
db_table_init ==
    /\ pc = "table_init"
    /\ table_inits' = table_inits + 1
    /\ IF TableMissing(table_exists)
       THEN /\ table_exists' = TRUE
            /\ creates' = creates + 1
       ELSE UNCHANGED << table_exists, creates >>
    /\ gen' = NewGenerator(args)
    /\ data_to_insert' = <<>>
    /\ pc' = "next"
    /\ UNCHANGED << args, remote, run, ret, db_conn, rows, txn, ds, requests,
                    lv_requests, yielded, inserts, connects, closes, commits,
                    exc, ended, conv, race >>

\* a statement of _db_table_init raises
db_table_init_fail ==
    /\ pc = "table_init"
    /\ table_inits' = table_inits + 1
    /\ Raise("_db_table_init")
    /\ UNCHANGED << args, remote, run, ret, db_conn, store, gen, ds,
                    data_to_insert, requests, lv_requests, yielded, inserts,
                    connects, closes, commits, creates, ended, conv, race >>

\* lines 245-246 left out: the loop is followed by line 248
AfterLoopNoFlush ==
    pc' = "close" /\ ret' = ret

\* the for loop of line 226 is over: lines 245-248 decide what follows
AfterLoop ==
    IF Len(data_to_insert) > 0
    THEN pc' = "insert" /\ ret' = "final"
    ELSE pc' = "close" /\ ret' = ret

(***************************************************************************)
(* _horreum_datasets, lines 162-195, driven by the for loop of line 226.   *)
(***************************************************************************)
\* line 187, with > in place of >=
CountExceeded(counter, count) == counter > count

\* line 187: if counter >= count
CountReached(counter, count) == counter >= count

\* line 195, with a step of two
SkipPage(page) == page + 2

\* line 195: page += 1
NextPage(page) == page + 1

\* line 191 left out: an empty page does not end the listing
NeverEnds(datasets) == FALSE

\* line 191: if len(datasets) == 0
EndOfDatasets(datasets) == Len(datasets) = 0

\* lines 164-183 and 191-195: the request of one page, answered; the first
\* dataset of the page is yielded, and a page without one ends the generator
horreum_datasets_request ==
    /\ pc = "next"
    /\ gen.state \in {"created", "request"}
    /\ requests' = Append(requests, gen.page)
    /\ LET datasets == ListResponse(remote, args.horreum_test_id, gen.page,
                                    args.horreum_limit)
       IN  IF Len(datasets) > 0
           THEN /\ gen' = [gen EXCEPT !.state = "suspended",
                                      !.datasets = datasets, !.idx = 1]
                /\ ds' = datasets[1]
                /\ yielded' = Append(yielded, datasets[1])
                /\ pc' = "body"
                /\ ret' = ret
           ELSE IF EndOfDatasets(datasets)
           THEN /\ gen' = [gen EXCEPT !.state = "done", !.datasets = datasets,
                                      !.idx = 0]
                /\ AfterLoop
                /\ UNCHANGED << ds, yielded >>
           ELSE /\ gen' = [gen EXCEPT !.state = "request",
                                      !.datasets = datasets, !.idx = 0,
                                      !.page = NextPage(gen.page)]
                /\ pc' = "next"
                /\ ret' = ret
                /\ UNCHANGED << ds, yielded >>
    /\ UNCHANGED << args, remote, run, db_conn, store, data_to_insert,
                    lv_requests, inserts, connects, closes, commits, creates, table_inits,
                    exc, ended, conv, race >>

\* line 177: response.raise_for_status() raises
horreum_datasets_request_fail ==
    /\ pc = "next"
    /\ gen.state \in {"created", "request"}
    /\ requests' = Append(requests, gen.page)
    /\ gen' = [gen EXCEPT !.state = "raised"]
    /\ Raise("_horreum_datasets")
    /\ UNCHANGED << args, remote, run, ret, db_conn, store, ds, data_to_insert,
                    lv_requests, yielded, inserts, connects, closes, commits,
                    creates, table_inits, ended, conv, race >>

\* lines 185-189 left out: the generator counts nothing and goes on to the
\* next dataset or the next page
horreum_datasets_resume_uncounted ==
    /\ pc = "next"
    /\ gen.state = "suspended"
    /\ IF gen.idx < Len(gen.datasets)
       THEN /\ gen' = [gen EXCEPT !.idx = gen.idx + 1]
            /\ ds' = gen.datasets[gen.idx + 1]
            /\ yielded' = Append(yielded, gen.datasets[gen.idx + 1])
            /\ pc' = "body"
       ELSE /\ gen' = [gen EXCEPT !.state = "request",
                                  !.page = NextPage(gen.page)]
            /\ pc' = "next"
            /\ UNCHANGED << ds, yielded >>
    /\ UNCHANGED << args, remote, run, ret, db_conn, store, data_to_insert,
                    requests, lv_requests, inserts, connects, closes, commits,
                    creates, table_inits, exc, ended, conv, race >>

\* lines 185-195: the generator is resumed after a yield
horreum_datasets_resume ==
    /\ pc = "next"
    /\ gen.state = "suspended"
    /\ LET counter == gen.counter + 1
       IN  IF CountReached(counter, args.horreum_count)
           THEN /\ gen' = [gen EXCEPT !.state = "done", !.counter = counter]
                /\ AfterLoop
                /\ UNCHANGED << ds, yielded >>
           ELSE IF gen.idx < Len(gen.datasets)
           THEN /\ gen' = [gen EXCEPT !.counter = counter, !.idx = gen.idx + 1]
                /\ ds' = gen.datasets[gen.idx + 1]
                /\ yielded' = Append(yielded, gen.datasets[gen.idx + 1])
                /\ pc' = "body"
                /\ ret' = ret
           ELSE IF EndOfDatasets(gen.datasets)
           THEN /\ gen' = [gen EXCEPT !.state = "done", !.counter = counter]
                /\ AfterLoop
                /\ UNCHANGED << ds, yielded >>
           ELSE /\ gen' = [gen EXCEPT !.state = "request", !.counter = counter,
                                      !.page = NextPage(gen.page)]
                /\ pc' = "next"
                /\ ret' = ret
                /\ UNCHANGED << ds, yielded >>
    /\ UNCHANGED << args, remote, run, db_conn, store, data_to_insert,
                    requests, lv_requests, inserts, connects, closes, commits,
                    creates, table_inits, exc, ended, conv, race >>

(***************************************************************************)
(* The body of the loop, lines 227-243.                                    *)
(***************************************************************************)
\* line 241, with > in place of >=
OverThreshold(buffer) == Len(buffer) > BatchSize

\* line 241: if len(data_to_insert) >= 10
ThresholdReached(buffer) == Len(buffer) >= BatchSize

\* lines 227-241 without the request of line 227: the record is buffered
\* with no label values, to be completed later
horreum_labelvalues_deferred ==
    /\ pc = "body"
    /\ LET buffer == Append(data_to_insert, Record(ds, <<>>))
       IN  /\ data_to_insert' = buffer
           /\ IF Len(buffer) >= BatchSize
              THEN pc' = "insert" /\ ret' = "loop"
              ELSE pc' = "next" /\ ret' = ret
    /\ UNCHANGED << args, remote, run, db_conn, store, gen, ds, requests,
                    lv_requests, yielded, inserts, connects, closes, commits,
                    creates, table_inits, exc, ended, conv, race >>

\* lines 227-241: label values fetched, record built and buffered
horreum_labelvalues ==
    /\ pc = "body"
    /\ lv_requests' = Append(lv_requests, ds.id)
    /\ LET label_values == DictOf(<<>>, LabelValuesResponse(remote, ds.id))
           buffer == Append(data_to_insert, Record(ds, label_values))
       IN  /\ data_to_insert' = buffer
           /\ IF ThresholdReached(buffer)
              THEN pc' = "insert" /\ ret' = "loop"
              ELSE pc' = "next" /\ ret' = ret
    /\ UNCHANGED << args, remote, run, db_conn, store, gen, ds, requests,
                    yielded, inserts, connects, closes, commits, creates, table_inits,
                    exc, ended, conv, race >>

\* line 213: response.raise_for_status() raises
horreum_labelvalues_fail ==
    /\ pc = "body"
    /\ lv_requests' = Append(lv_requests, ds.id)
    /\ Raise("_horreum_labelvalues")
    /\ UNCHANGED << args, remote, run, ret, db_conn, store, gen, ds,
                    data_to_insert, requests, yielded, inserts, connects,
                    closes, commits, creates, table_inits, ended, conv, race >>

(***************************************************************************)
(* _db_insert, lines 124-146.                                              *)
(***************************************************************************)
\* line 145 left out: what the transaction inserted never becomes visible
NoCommit(committed, pending) == committed

\* line 145: conn.commit() makes the table what the transaction sees
Commit(committed, pending) == pending

\* lines 124-143: every statement of the batch executes
db_insert ==
    /\ pc = "insert"
    /\ inserts' = Append(inserts, data_to_insert)
    /\ commits' = Append(commits, 0)
    /\ txn' = ExecuteBatch(txn, ValuesList(data_to_insert))
    /\ pc' = "commit"
    /\ UNCHANGED << args, remote, run, ret, db_conn, table_exists, rows, gen,
                    ds, data_to_insert, requests, lv_requests, yielded,
                    connects, closes, creates, table_inits, exc, ended, conv, race >>

\* line 143 on a connection in autocommit mode: the statements that ran
\* before the failing one are committed
db_insert_fail_autocommit ==
    /\ pc = "insert"
    /\ \E k \in 1..Len(data_to_insert) :
         /\ txn' = ExecuteBatch(txn, SubSeq(ValuesList(data_to_insert), 1, k - 1))
         /\ rows' = txn'
    /\ inserts' = Append(inserts, data_to_insert)
    /\ commits' = Append(commits, 0)
    /\ Raise("_db_insert")
    /\ UNCHANGED << args, remote, run, ret, db_conn, table_exists, gen,
                    ds, data_to_insert, requests, lv_requests, yielded,
                    connects, closes, creates, table_inits, ended, conv, race >>

\* line 143: statement k of the batch raises, the ones before it have run
db_insert_fail ==
    /\ pc = "insert"
    /\ \E k \in 1..Len(data_to_insert) :
         txn' = ExecuteBatch(txn, SubSeq(ValuesList(data_to_insert), 1, k - 1))
    /\ inserts' = Append(inserts, data_to_insert)
    /\ commits' = Append(commits, 0)
    /\ Raise("_db_insert")
    /\ UNCHANGED << args, remote, run, ret, db_conn, table_exists, rows, gen,
                    ds, data_to_insert, requests, lv_requests, yielded,
                    connects, closes, creates, table_inits, ended, conv, race >>

\* line 243 left out: the list keeps the records it passed to _db_insert
Kept(buffer) == buffer

\* line 243: data_to_insert = []
Cleared(buffer) == <<>>

\* line 145, then line 243 when the call was the one of line 242
db_commit ==
    /\ pc = "commit"
    /\ rows' = Commit(rows, txn)
    /\ txn' = Commit(rows, txn)
    /\ commits' = [commits EXCEPT ![Len(commits)] = @ + 1]
    /\ IF ret = "loop"
       THEN data_to_insert' = Cleared(data_to_insert) /\ pc' = "next"
       ELSE data_to_insert' = data_to_insert /\ pc' = "close"
    /\ UNCHANGED << args, remote, run, ret, db_conn, table_exists, gen, ds,
                    requests, lv_requests, yielded, inserts, connects, closes,
                    creates, table_inits, exc, ended, conv, race >>

\* line 145: conn.commit() raises
db_commit_fail ==
    /\ pc = "commit"
    /\ Raise("_db_insert")
    /\ UNCHANGED << args, remote, run, ret, db_conn, store, gen, ds,
                    data_to_insert, logs, ended, conv, race >>

\* line 248
db_close ==
    /\ pc = "close"
    /\ db_conn' = "closed"
    /\ closes' = closes + 1
    /\ txn' = rows
    /\ pc' = "Done"
    /\ UNCHANGED << args, remote, run, ret, table_exists, rows, gen, ds,
                    data_to_insert, requests, lv_requests, yielded, inserts,
                    connects, commits, creates, table_inits, exc, ended, conv, race >>

(***************************************************************************)
(* The script is started again with the same command line, lines 348-383.  *)
(* The process of the run before is gone, and with it the transaction it   *)
(* left open.                                                              *)
(***************************************************************************)
main ==
    /\ pc \in {"Done", "Error"}
    /\ run < MaxRuns
    /\ ended' = [outcome |-> pc, rows |-> rows]
    /\ run' = run + 1
    /\ pc' = "connect"
    /\ ret' = "loop"
    /\ db_conn' = "none"
    /\ txn' = rows
    /\ gen' = NewGenerator(args)
    /\ ds' = NoDataset
    /\ data_to_insert' = <<>>
    /\ requests' = <<>>
    /\ lv_requests' = <<>>
    /\ yielded' = <<>>
    /\ inserts' = <<>>
    /\ connects' = 0
    /\ closes' = 0
    /\ commits' = <<>>
    /\ creates' = 0
    /\ table_inits' = 0
    /\ exc' = ""
    /\ UNCHANGED << args, remote, table_exists, rows, conv, race >>

Next ==
    \/ db_connect
    \/ db_connect_fail
    \/ db_table_init
    \/ db_table_init_fail
    \/ horreum_datasets_request
    \/ horreum_datasets_request_fail
    \/ horreum_datasets_resume
    \/ horreum_labelvalues
    \/ horreum_labelvalues_fail
    \/ db_insert
    \/ db_insert_fail
    \/ db_commit
    \/ db_commit_fail
    \/ db_close
    \/ main

Spec == Init /\ [][Next]_vars

(***************************************************************************)
(* The conversion of line 229 on its own: pairs of start values go through *)
(* it, nothing else runs.                                                  *)
(***************************************************************************)
ConvStarts ==
    [hi : {-1, 0, 1700000}, lo : {0, 1, 123, 999, 1000, 999999}]

InitConv ==
    /\ Init
    /\ args.horreum_count = 0
    /\ args.horreum_page = 1
    /\ args.horreum_limit = DefaultLimit
    /\ remote = [kinds |-> [p \in 1..2 |-> "empty"], rest |-> "empty",
                 variant |-> "distinct"]

\* a pair of datasets arrives with these start values
conv_input ==
    /\ conv_in = <<>>
    /\ \E a \in ConvStarts, b \in ConvStarts : conv_in' = << a, b >>
    /\ UNCHANGED << args, remote, run, pc, ret, db_conn, store, gen, ds,
                    data_to_insert, logs, exc, ended, conv_out, race >>

\* line 229 applied to both
conv_when ==
    /\ conv_in # <<>>
    /\ conv_out = <<>>
    /\ conv_out' = << When(conv_in[1]), When(conv_in[2]) >>
    /\ UNCHANGED << args, remote, run, pc, ret, db_conn, store, gen, ds,
                    data_to_insert, logs, exc, ended, conv_in, race >>

NextConv == conv_input \/ conv_when

SpecConv == InitConv /\ [][NextConv]_vars

(***************************************************************************)
(* C6                                                                      *)
(***************************************************************************)
\* the two start values differ at most in their last three decimal digits
SameSecond(a, b) == a.hi = b.hi /\ (a.lo \div 1000) = (b.lo \div 1000)

\* the fields of a datetime down to the second
ToSecond(w) == << w.year, w.month, w.day, w.hour, w.minute, w.second >>

\* C6 as stated: the conversion truncates the milliseconds, so two start
\* values that differ only in their last three digits give the same timestamp
C6_Truncates ==
    conv_out # <<>> =>
        (SameSecond(conv_in[1], conv_in[2]) => conv_out[1] = conv_out[2])

\* C6 as amended: the conversion keeps the milliseconds.  Two start values
\* that differ only in their last three digits give timestamps that agree
\* down to the second, the timestamps are equal only if the start values
\* are, and 1700000000000 becomes 2023-11-14T22:13:20Z exactly.
C6_KeepsMilliseconds ==
    conv_out # <<>> =>
        /\ SameSecond(conv_in[1], conv_in[2])
              => ToSecond(conv_out[1]) = ToSecond(conv_out[2])
        /\ conv_out[1] = conv_out[2] <=> conv_in[1] = conv_in[2]
        /\ \A k \in 1..2 :
              conv_in[k] = [hi |-> 1700000, lo |-> 0]
                 => conv_out[k] = [year |-> 2023, month |-> 11, day |-> 14,
                                   hour |-> 22, minute |-> 13, second |-> 20,
                                   microsecond |-> 0]

\* 1700000000000 and 1700000000123 have both been converted
C6_Witness ==
    /\ conv_out # <<>>
    /\ conv_in = << [hi |-> 1700000, lo |-> 0], [hi |-> 1700000, lo |-> 123] >>
    /\ conv_out[2].microsecond = 123000

(***************************************************************************)
(* What the claims refer to.                                               *)
(***************************************************************************)
\* the answer of the remote to the request of page p with the run's arguments
Answer(p) ==
    ListResponse(remote, args.horreum_test_id, p, args.horreum_limit)

\* number of datasets on page p and the pages after it, up to the first empty
\* page, counted no further than cap
RECURSIVE Available(_, _)
Available(p, cap) ==
    LET n == Len(Answer(p))
    IN  IF n = 0 THEN 0
        ELSE IF n >= cap THEN cap
        ELSE n + Available(p + 1, cap - n)

\* number of pages from page p on that have to be fetched to see cap datasets
\* or else the first empty page
RECURSIVE PagesFor(_, _)
PagesFor(p, cap) ==
    LET n == Len(Answer(p))
    IN  IF n = 0 \/ n >= cap THEN 1
        ELSE 1 + PagesFor(p + 1, cap - n)

\* the record upload builds from a dataset when every request is answered
RecordOf(dataset) ==
    Record(dataset, DictOf(<<>>, LabelValuesResponse(remote, dataset.id)))

RECURSIVE RecordsOf(_)
RecordsOf(datasets) ==
    IF datasets = <<>> THEN <<>>
    ELSE << RecordOf(Head(datasets)) >> \o RecordsOf(Tail(datasets))

\* the datasets a listing yields from page p on when counter have been
\* yielded already and no request fails
RECURSIVE FullYield(_, _)
FullYield(p, counter) ==
    LET datasets == Answer(p)
        n == Min(Len(datasets), Max(1, args.horreum_count - counter))
    IN  IF Len(datasets) = 0 THEN <<>>
        ELSE SubSeq(datasets, 1, n)
             \o (IF counter + n >= args.horreum_count THEN <<>>
                 ELSE FullYield(p + 1, counter + n))

\* the table after one run on an empty table in which nothing fails
SingleRunRows ==
    ExecuteBatch(<<>>, ValuesList(RecordsOf(FullYield(args.horreum_page, 0))))

\* the committed rows when the current run started
RunStartRows == ended.rows

\* the calls that issue a request to Horreum
RequestCalls == {"_horreum_datasets", "_horreum_labelvalues"}

(***************************************************************************)
(* C1                                                                      *)
(***************************************************************************)
\* C1: with count >= 1 the listing never yields more than count datasets and
\* never requests a page beyond the one that holds the count-th dataset or
\* is the first empty one; when it ends it has yielded exactly the smaller
\* of count and the number of datasets before the first empty page.
C1_BoundedTermination ==
    args.horreum_count >= 1 =>
        /\ Len(yielded) <= args.horreum_count
        /\ Len(requests) <= PagesFor(args.horreum_page, args.horreum_count)
        /\ gen.state = "done" =>
              /\ Len(yielded) = Available(args.horreum_page, args.horreum_count)
              /\ Len(requests) = PagesFor(args.horreum_page, args.horreum_count)

\* count 5 over three pages of 10: five datasets yielded, one page requested
C1_Witness ==
    /\ args.horreum_count = 5
    /\ args.horreum_page = 1
    /\ args.horreum_limit = DefaultLimit
    /\ \A p \in 1..3 : Len(Answer(p)) = DefaultLimit
    /\ gen.state = "done"
    /\ Len(yielded) = 5
    /\ requests = << 1 >>

(***************************************************************************)
(* C2                                                                      *)
(***************************************************************************)
\* C2: a page that was fetched and is empty is the last page the run
\* requests and ends the listing; when the first page is empty the listing
\* yields nothing and the run has issued exactly one page request.
C2_EmptyPageTermination ==
    /\ \A k \in 1..Len(requests) :
          (Len(Answer(requests[k])) = 0
              /\ ~(k = Len(requests) /\ gen.state = "raised"))
          => (k = Len(requests) /\ gen.state = "done")
    /\ (gen.state = "done" /\ Len(Answer(args.horreum_page)) = 0)
          => (yielded = <<>> /\ Len(requests) = 1)

\* the first page was empty and the run went on to its end
C2_Witness ==
    /\ Len(Answer(args.horreum_page)) = 0
    /\ Len(Answer(args.horreum_page + 1)) > 0
    /\ args.horreum_count >= 1
    /\ gen.state = "done"
    /\ requests = << args.horreum_page >>
    /\ yielded = <<>>
    /\ pc = "Done"

(***************************************************************************)
(* C3                                                                      *)
(***************************************************************************)
\* C3: when a run that reached Done is followed by a run with the same
\* arguments over the same remote data that reaches Done too, the table
\* holds after the second exactly the rows it held after the first.
C3_Idempotent ==
    (pc = "Done" /\ run >= 2 /\ ended.outcome = "Done")
        => rows = ended.rows

\* two complete runs, the second one having inserted two batches again
C3_Witness ==
    /\ pc = "Done"
    /\ run = 2
    /\ ended.outcome = "Done"
    /\ Len(inserts) >= 2
    /\ Len(rows) > BatchSize

(***************************************************************************)
(* C4                                                                      *)
(***************************************************************************)
\* C4: no two rows of the table have the same
\* (horreum_testid, horreum_runid, horreum_datasetid).
C4_NaturalKeyUnique ==
    \A i, j \in 1..Len(rows) : Key(rows[i]) = Key(rows[j]) => i = j

\* a second run has inserted batches that hold the same key several times
C4_Witness ==
    /\ run = 2
    /\ pc = "Done"
    /\ Len(inserts) >= 2
    /\ \E i, j \in 1..Len(inserts[1]) :
          i # j /\ Key(inserts[1][i]) = Key(inserts[1][j])
    /\ Len(ended.rows) > 0
    /\ Len(rows) = 2

(***************************************************************************)
(* C5                                                                      *)
(***************************************************************************)
\* C5: _db_insert is never called with an empty batch, and a run that ends
\* in Done after N datasets has called it N div 10 times with 10 records,
\* then once more with N mod 10 records exactly if N mod 10 > 0.
C5_BatchBoundaries ==
    /\ \A k \in 1..Len(inserts) : Len(inserts[k]) > 0
    /\ pc = "Done" =>
          LET N == Len(yielded)
              full == N \div BatchSize
              last == N % BatchSize
          IN  /\ Len(inserts) = full + (IF last > 0 THEN 1 ELSE 0)
              /\ \A k \in 1..full : Len(inserts[k]) = BatchSize
              /\ last > 0 => Len(inserts[full + 1]) = last

\* 23 datasets went through: batches of 10, 10 and 3
C5_Witness ==
    /\ pc = "Done"
    /\ Len(yielded) = 23
    /\ Len(inserts) = 3
    /\ Len(inserts[1]) = 10
    /\ Len(inserts[2]) = 10
    /\ Len(inserts[3]) = 3

(***************************************************************************)
(* C7                                                                      *)
(***************************************************************************)
\* C7: on every exit of upload, Done or an Error raised by a page request,
\* a label-value request, the schema step or an insert, the connection has
\* been opened once and closed once.
C7_ClosedOnEveryExit ==
    (\/ pc = "Done"
     \/ /\ pc = "Error"
        /\ exc \in {"_horreum_datasets", "_horreum_labelvalues",
                    "_db_table_init", "_db_insert"})
        => (connects = 1 /\ closes = 1)

(***************************************************************************)
(* C8                                                                      *)
(***************************************************************************)
\* the call of _db_insert number k of this run has not committed: it is
\* still running or it raised
NotCommitted(k) ==
    /\ k = Len(inserts)
    /\ \/ pc = "commit"
       \/ pc = "Error" /\ exc = "_db_insert"

\* the records of the calls of this run that have committed, in call order
RECURSIVE CommittedRecords(_)
CommittedRecords(k) ==
    IF k = 0 THEN <<>>
    ELSE CommittedRecords(k - 1)
         \o (IF commits[k] = 1 THEN inserts[k] ELSE <<>>)

\* C8: a call of _db_insert that returned has committed exactly once, a call
\* that raised or has not reached its commit has not committed, and the
\* table holds the rows of the committed calls, each batch whole with its
\* conflicts skipped, and no row of any other call.
C8_AllOrNothing ==
    /\ Len(commits) = Len(inserts)
    /\ \A k \in 1..Len(inserts) :
          commits[k] = (IF NotCommitted(k) THEN 0 ELSE 1)
    /\ rows = ExecuteBatch(RunStartRows,
                           ValuesList(CommittedRecords(Len(inserts))))

\* the second batch raised at a statement after some had executed
C8_Witness ==
    /\ pc = "Error"
    /\ exc = "_db_insert"
    /\ Len(inserts) = 2
    /\ commits = << 1, 0 >>
    /\ Len(txn) > Len(rows)
    /\ Len(rows) = BatchSize

(***************************************************************************)
(* C9                                                                      *)
(***************************************************************************)
\* C9: a request that fails puts the run in Error, and a run in Error
\* issues no page request, no label-value request, yields no dataset and
\* calls _db_insert no more.
C9_RequestFailureFatal ==
    /\ [](exc \in RequestCalls => pc = "Error")
    /\ [][(pc = "Error" /\ exc \in RequestCalls /\ run' = run)
             => UNCHANGED << requests, lv_requests, yielded, inserts, rows >>]_vars

\* a label-value request failed after a batch had been inserted
C9_Witness ==
    /\ pc = "Error"
    /\ exc = "_horreum_labelvalues"
    /\ Len(inserts) = 1
    /\ Len(lv_requests) = Len(yielded)
    /\ Len(yielded) > BatchSize

(***************************************************************************)
(* C10                                                                     *)
(***************************************************************************)
\* C10: whenever a run reaches Done, the first one or one that follows runs
\* that ended in Error at any point, the table holds exactly the rows that
\* a single run in which nothing fails leaves in an empty table.
C10_RerunRecovers ==
    pc = "Done" => rows = SingleRunRows

\* the first run broke off after it had committed a batch, the second one
\* reached Done and added rows
C10_Witness ==
    /\ pc = "Done"
    /\ run = 2
    /\ ended.outcome = "Error"
    /\ Len(ended.rows) = BatchSize
    /\ Len(rows) > BatchSize

(***************************************************************************)
(* C11                                                                     *)
(***************************************************************************)
\* C11: for every count, 0 included, the listing never yields more than
\* count datasets.
C11_NeverExceedsCount ==
    Len(yielded) <= args.horreum_count

(***************************************************************************)
(* C12                                                                     *)
(***************************************************************************)
\* C12: no step changes or removes a row of the table: every row stays at
\* its place with its start and label_values, whatever the records of the
\* batches carry for its key; the table only grows at its end.
C12_RowsNeverUpdated ==
    [][\A k \in 1..Len(rows) :
          /\ k <= Len(rows')
          /\ rows'[k] = rows[k]]_vars

\* a committed batch held a record with the key of a stored row and another
\* start than that row
C12_Witness ==
    /\ pc = "Done"
    /\ Len(inserts) >= 1
    /\ commits[1] = 1
    /\ \E i \in 1..Len(inserts[1]), k \in 1..Len(rows) :
          /\ Key(inserts[1][i]) = Key(rows[k])
          /\ inserts[1][i].start # rows[k].start

(***************************************************************************)
(* C13                                                                     *)
(***************************************************************************)
\* C13: the label values are requested dataset by dataset in the order of
\* the yields; a dataset is pulled from the generator, and a page is
\* requested, only when the label values of every dataset yielded so far
\* have been requested and answered.
C13_StrictlyInterleaved ==
    /\ [](/\ Len(lv_requests) <= Len(yielded)
          /\ Len(yielded) <= Len(lv_requests) + 1
          /\ \A i \in 1..Len(lv_requests) : lv_requests[i] = yielded[i].id
          /\ pc = "next" => Len(lv_requests) = Len(yielded))
    /\ [][(run' = run /\ (yielded' # yielded \/ requests' # requests))
             => (pc = "next" /\ Len(lv_requests) = Len(yielded))]_vars

\* the second page has been requested after the label values of all ten
\* datasets of the first, and its first dataset waits for its own
C13_Witness ==
    /\ pc = "body"
    /\ Len(requests) = 2
    /\ Len(yielded) = DefaultLimit + 1
    /\ Len(lv_requests) = DefaultLimit

(***************************************************************************)
(* C14                                                                     *)
(***************************************************************************)
\* C14: the pages requested are the start page and the pages after it, one
\* by one with no gap and no repeat; after a page that is not empty the
\* listing goes on with the page after it unless count is reached, so a
\* listing ends only with count datasets yielded or on an empty page.
C14_ConsecutivePages ==
    /\ \A k \in 1..Len(requests) : requests[k] = args.horreum_page + k - 1
    /\ gen.state = "request" => gen.page = args.horreum_page + Len(requests)
    /\ gen.state = "done" =>
          \/ Len(yielded) >= args.horreum_count
          \/ Len(Answer(requests[Len(requests)])) = 0

\* a page shorter than the page size was followed by the request of the
\* page after it, and that one by a third
C14_Witness ==
    /\ Len(requests) = 3
    /\ Len(Answer(requests[1])) > 0
    /\ Len(Answer(requests[1])) < args.horreum_limit
    /\ requests = << args.horreum_page, args.horreum_page + 1,
                     args.horreum_page + 2 >>
    /\ Len(yielded) < args.horreum_count

(***************************************************************************)
(* C15                                                                     *)
(***************************************************************************)
\* the run has called _db_insert, or is inside a call of it
InsertStarted == Len(inserts) > 0 \/ pc \in {"insert", "commit"}

\* C15: a run calls _db_table_init at most once, only on a connection it has
\* opened, and a run past that step has called it exactly once; a page
\* request, a yielded dataset or a call of _db_insert occurs only after the
\* schema step has completed without raising, with the table present.
C15_SchemaCheckedOnceFirst ==
    /\ table_inits <= 1
    /\ table_inits = 1 => connects = 1
    /\ pc = "table_init" => table_inits = 0 /\ connects = 1
    /\ (connects = 1 /\ pc # "table_init") => table_inits = 1
    /\ (Len(requests) > 0 \/ Len(yielded) > 0 \/ InsertStarted)
          => /\ table_inits = 1
             /\ exc # "_db_table_init"
             /\ table_exists

\* a second run on a store whose table the first run created has checked the
\* schema once, requested pages and inserted, and is Done
C15_Witness ==
    /\ run = 2
    /\ pc = "Done"
    /\ table_inits = 1
    /\ creates = 0
    /\ Len(requests) > 1
    /\ Len(inserts) > 1

(***************************************************************************)
(* C16                                                                     *)
(***************************************************************************)
\* C16 as stated: the buffer never holds more than 10 records, holds at most
\* 9 whenever the next dataset is pulled, and is empty after every flush,
\* the final one included, and when the run is Done.
C16_EmptyAfterEveryFlush ==
    /\ Len(data_to_insert) <= BatchSize
    /\ pc = "next" => Len(data_to_insert) <= BatchSize - 1
    /\ pc \in {"close", "Done"} => data_to_insert = <<>>

\* C16, amended: the buffer never holds more than 10 records, holds at most
\* 9 whenever the next dataset is pulled, is empty right after every flush
\* made inside the loop, and is left as it was by the final flush: after the
\* loop it holds the last partial batch, as many records as the number of
\* yielded datasets modulo 10.
C16_BufferBounded ==
    /\ [](/\ Len(data_to_insert) <= BatchSize
          /\ pc = "next" => Len(data_to_insert) <= BatchSize - 1
          /\ pc \in {"close", "Done"}
                => /\ Len(data_to_insert) = Len(yielded) % BatchSize
                   /\ Len(data_to_insert) > 0
                         => data_to_insert = inserts[Len(inserts)])
    /\ [][(pc = "commit" /\ pc' = "next") => data_to_insert' = <<>>]_vars
    /\ [][(pc = "commit" /\ pc' = "close")
             => data_to_insert' = data_to_insert /\ data_to_insert # <<>>]_vars

\* a run is Done after two flushes in the loop and a final flush of three
\* records, which are still in the buffer
C16_Witness ==
    /\ pc = "Done"
    /\ Len(inserts) = 3
    /\ Len(data_to_insert) = 3
    /\ commits[3] = 1

(***************************************************************************)
(* Several runs of the script started together on one database, each in    *)
(* its own process with its own connection, up to the end of               *)
(* _db_table_init (lines 220-221).  table_exists is what the store has      *)
(* committed: pg_tables shows a run only the tables of committed            *)
(* transactions.                                                            *)
(***************************************************************************)
InitRace ==
    /\ args \in {a \in Args : a.horreum_count = 0 /\ a.horreum_page = 1}
    /\ remote = [kinds |-> [p \in 1..2 |-> "empty"], rest |-> "empty",
                 variant |-> "distinct"]
    /\ run = 1
    /\ pc = "connect"
    /\ ret = "loop"
    /\ db_conn = "none"
    /\ table_exists \in BOOLEAN
    /\ rows = <<>>
    /\ txn = <<>>
    /\ gen = NewGenerator(args)
    /\ ds = NoDataset
    /\ data_to_insert = <<>>
    /\ requests = <<>>
    /\ lv_requests = <<>>
    /\ yielded = <<>>
    /\ inserts = <<>>
    /\ connects = 0
    /\ closes = 0
    /\ commits = <<>>
    /\ creates = 0
    /\ table_inits = 0
    /\ exc = ""
    /\ ended = [outcome |-> "", rows |-> <<>>]
    /\ conv_in = <<>>
    /\ conv_out = <<>>
    /\ race_pc = [p \in RaceRuns |-> "connect"]
    /\ race_seen = [p \in RaceRuns |-> "unknown"]
    /\ race_creates = [p \in RaceRuns |-> 0]

\* what no step of the racing runs changes
race_frame ==
    UNCHANGED << args, remote, run, pc, ret, db_conn, rows, txn, gen, ds,
                 data_to_insert, logs, exc, ended, conv >>

\* line 220: the run opens its connection
race_connect(p) ==
    /\ race_pc[p] = "connect"
    /\ race_pc' = [race_pc EXCEPT ![p] = "select"]
    /\ UNCHANGED << table_exists, race_seen, race_creates >>
    /\ race_frame

\* lines 76-77: SELECT EXISTS ... and fetchone
race_select(p) ==
    /\ race_pc[p] = "select"
    /\ race_seen' = [race_seen EXCEPT
                       ![p] = IF table_exists THEN "present" ELSE "absent"]
    /\ race_pc' = [race_pc EXCEPT ![p] = "check"]
    /\ UNCHANGED << table_exists, race_creates >>
    /\ race_frame

\* lines 79-91: the test of what the run has seen and the CREATE TABLE
\* statement, which the store refuses when the table has been committed
\* since; no statement of the run takes a lock before it
race_create(p) ==
    /\ race_pc[p] = "check"
    /\ IF TableMissing(race_seen[p] = "present")
       THEN /\ race_creates' = [race_creates EXCEPT ![p] = @ + 1]
            /\ race_pc' = [race_pc EXCEPT
                             ![p] = IF table_exists THEN "Error" ELSE "commit"]
       ELSE /\ race_creates' = race_creates
            /\ race_pc' = [race_pc EXCEPT ![p] = "Done"]
    /\ UNCHANGED << table_exists, race_seen >>
    /\ race_frame

\* line 92: conn.commit(); the store commits the table of one run only
race_commit(p) ==
    /\ race_pc[p] = "commit"
    /\ IF table_exists
       THEN /\ race_pc' = [race_pc EXCEPT ![p] = "Error"]
            /\ table_exists' = table_exists
       ELSE /\ race_pc' = [race_pc EXCEPT ![p] = "Done"]
            /\ table_exists' = TRUE
    /\ UNCHANGED << race_seen, race_creates >>
    /\ race_frame

NextRace ==
    \E p \in RaceRuns :
        \/ race_connect(p)
        \/ race_select(p)
        \/ race_create(p)
        \/ race_commit(p)

SpecRace == InitRace /\ [][NextRace]_vars

(***************************************************************************)
(* C17                                                                     *)
(***************************************************************************)
\* C17: a run issues CREATE TABLE at most once, and only after its SELECT
\* showed no table; a run whose SELECT showed the table never issues it; a
\* run that has seen no table is never held back from issuing it, whatever
\* the other runs have done, so more than one run may issue it.
C17_CheckThenCreate ==
    \A p \in RaceRuns :
        /\ race_creates[p] <= 1
        /\ race_creates[p] = 1 => race_seen[p] = "absent"
        /\ race_seen[p] = "present" => race_creates[p] = 0
        /\ race_pc[p] = "Done"
              => race_creates[p] = (IF race_seen[p] = "present" THEN 0 ELSE 1)
        /\ race_pc[p] = "check" => ENABLED race_create(p)
        /\ (race_pc[p] = "check" /\ race_seen[p] = "absent")
              => ENABLED (race_create(p) /\ race_creates'[p] = 1)

\* two runs on a fresh store have both seen no table and both issued CREATE
\* TABLE, and a third run, which came after the commit, has issued none
C17_Witness ==
    \E p \in RaceRuns, q \in RaceRuns, r \in RaceRuns :
        /\ p # q
        /\ race_seen[p] = "absent" /\ race_creates[p] = 1
        /\ race_seen[q] = "absent" /\ race_creates[q] = 1
        /\ race_seen[r] = "present" /\ race_creates[r] = 0
        /\ race_pc[r] = "Done"

(***************************************************************************)
(* C18                                                                     *)
(***************************************************************************)
\* the records of the first k calls of _db_insert of this run, in call order
RECURSIVE InsertedRecords(_)
InsertedRecords(k) ==
    IF k = 0 THEN <<>> ELSE InsertedRecords(k - 1) \o inserts[k]

\* C18: when a run is Done, the batches it passed to _db_insert, put end to
\* end in call order, are the records of the datasets the listing yielded,
\* in yield order: none is missing, none is there twice, none has moved;
\* and every one of those calls has committed.
C18_NothingLostOrReordered ==
    pc = "Done" =>
        /\ InsertedRecords(Len(inserts)) = RecordsOf(yielded)
        /\ CommittedRecords(Len(inserts)) = RecordsOf(yielded)
        /\ \A k \in 1..Len(inserts) : inserts[k] # <<>>

\* a run is Done after 23 datasets, passed on in batches of 10, 10 and 3
C18_Witness ==
    /\ pc = "Done"
    /\ Len(yielded) = 23
    /\ Len(inserts) = 3
    /\ Len(inserts[1]) = 10 /\ Len(inserts[2]) = 10 /\ Len(inserts[3]) = 3

(***************************************************************************)
(* C19                                                                     *)
(***************************************************************************)
\* s is the beginning of t
IsPrefix(s, t) == Len(s) <= Len(t) /\ s = SubSeq(t, 1, Len(s))

\* the final flush of lines 245-246 has committed
FinalFlushCommitted == ret = "final" /\ pc \in {"close", "Done"}

\* C19: the records of the committed calls of _db_insert of a run are the
\* records of the first datasets yielded, in order; until the final flush
\* has committed their number is a multiple of 10; in Error the buffer
\* holds at most 9 records, or up to 10 when _db_insert raised, which follow
\* the committed ones in yield order and which the table does not hold, and
\* from then on the table does not change.
C19_CommittedPrefix ==
    /\ [](LET committed == CommittedRecords(Len(inserts))
          IN  /\ IsPrefix(committed, RecordsOf(yielded))
              /\ ~FinalFlushCommitted => Len(committed) % BatchSize = 0
              /\ pc = "Error" =>
                   /\ Len(data_to_insert)
                         <= (IF exc = "_db_insert" THEN BatchSize
                             ELSE BatchSize - 1)
                   /\ IsPrefix(committed \o data_to_insert,
                               RecordsOf(yielded))
                   /\ (run = 1 /\ remote.variant = "distinct") =>
                         \A i \in 1..Len(data_to_insert) :
                             \A j \in 1..Len(rows) :
                                 Key(rows[j]) # Key(Values(data_to_insert[i])))
    /\ [][pc = "Error" => rows' = rows]_vars

\* the second call of _db_insert raised with 10 records in the buffer after
\* some of its statements had run: the table holds the first 10 records
C19_Witness ==
    /\ pc = "Error"
    /\ exc = "_db_insert"
    /\ run = 1
    /\ remote.variant = "distinct"
    /\ Len(data_to_insert) = BatchSize
    /\ Len(CommittedRecords(Len(inserts))) = BatchSize
    /\ Len(rows) = BatchSize
    /\ Len(txn) = BatchSize + 4

(***************************************************************************)
(* One run of the script that goes on as long as it has a statement to     *)
(* run: the interpreter executes upload statement after statement, and     *)
(* every call it makes returns or raises.  The page size may be 1, so that *)
(* a listing of count datasets takes count requests.                       *)
(***************************************************************************)
LiveArgs ==
    [horreum_test_id : {1}, horreum_count : 0..MaxLiveCount,
     horreum_page : {1}, horreum_limit : {1, DefaultLimit}]

InitLive ==
    /\ args \in LiveArgs
    /\ remote \in Remotes
    /\ run = 1
    /\ pc = "connect"
    /\ ret = "loop"
    /\ db_conn = "none"
    /\ table_exists = FALSE
    /\ rows = <<>>
    /\ txn = <<>>
    /\ gen = NewGenerator(args)
    /\ ds = NoDataset
    /\ data_to_insert = <<>>
    /\ requests = <<>>
    /\ lv_requests = <<>>
    /\ yielded = <<>>
    /\ inserts = <<>>
    /\ connects = 0
    /\ closes = 0
    /\ commits = <<>>
    /\ creates = 0
    /\ table_inits = 0
    /\ exc = ""
    /\ ended = [outcome |-> "", rows |-> <<>>]
    /\ conv_in = <<>>
    /\ conv_out = <<>>
    /\ race_pc = [p \in RaceRuns |-> "connect"]
    /\ race_seen = [p \in RaceRuns |-> "unknown"]
    /\ race_creates = [p \in RaceRuns |-> 0]

NextLive ==
    \/ db_connect
    \/ db_connect_fail
    \/ db_table_init
    \/ db_table_init_fail
    \/ horreum_datasets_request
    \/ horreum_datasets_request_fail
    \/ horreum_datasets_resume
    \/ horreum_labelvalues
    \/ horreum_labelvalues_fail
    \/ db_insert
    \/ db_insert_fail
    \/ db_commit
    \/ db_commit_fail
    \/ db_close

SpecLive == InitLive /\ [][NextLive]_vars /\ WF_vars(NextLive)

(***************************************************************************)
(* C20                                                                     *)
(***************************************************************************)
\* the generator has returned or raised, or the loop that drives it has
\* been left by an exception
ListingOver == gen.state \in {"done", "raised"} \/ pc = "Error"

\* C20: whatever the pages hold, a listing issues at most max(count, 1)
\* page requests, the listing eventually is over, and the run eventually is
\* Done or in Error.
C20_AlwaysTerminates ==
    /\ [](Len(requests) <= Max(args.horreum_count, 1))
    /\ <>ListingOver
    /\ <>(pc \in {"Done", "Error"})

\* a listing of pages of one dataset from a source without an empty page
\* has ended after count requests, and the run is Done
C20_Witness ==
    /\ pc = "Done"
    /\ gen.state = "done"
    /\ args.horreum_limit = 1
    /\ args.horreum_count >= 4
    /\ \A p \in 1..2 : remote.kinds[p] = "full"
    /\ remote.rest = "full"
    /\ Len(requests) = args.horreum_count
    /\ Len(yielded) = args.horreum_count

====
